---- MODULE Spec2Model ----
(***************************************************************************)
(* Model of src/src/main.ts: WebGL start-up (canvas, context, shader       *)
(* compilation, program linking), geometry set-up and the frame callback   *)
(* handed to requestAnimationFrame.  The WebGL context is modelled as an   *)
(* object store of handles (shaders, programs, buffers) plus the global    *)
(* state the program touches (current program, array-buffer binding,       *)
(* vertex attribute descriptors).  Every gl call appends to `calls`, the   *)
(* ordered record of what the program asked of the context.                *)
(***************************************************************************)
EXTENDS Integers, Sequences, FiniteSets, TLC

\* ---- bounds of the environment ----
MaxAttribs == 2      \* attribute locations the linker may hand out: 0..MaxAttribs-1
MaxPixelRatio == 2   \* window.devicePixelRatio ranges over 1..MaxPixelRatio

\* ---- WebGL enumerants used by main.ts ----
GL_VERTEX_SHADER == 35633
GL_FRAGMENT_SHADER == 35632
GL_ARRAY_BUFFER == 34962
GL_STATIC_DRAW == 35044
GL_FLOAT == 5126
GL_UNSIGNED_BYTE == 5121
GL_TRIANGLES == 4
GL_COLOR_BUFFER_BIT == 16384
GL_DEPTH_BUFFER_BIT == 256

\* default size of a canvas element, and its CSS size in the page
CanvasDefaultWidth == 300
CanvasDefaultHeight == 150

Null == 0
AttribNames == {"a_Pos", "a_Col"}

\* ---- console messages ----
MsgShader == "Could not compile WebGL shader."
MsgProgram == "Could not compile WebGL program."
MsgCanvas == "Unable to get the canvas element. Either your HTML broke or the dev being stupid."
MsgContext == "Unable to load WebGL context from canvas. Perhaps your browser doesn't support it. Stopping."
MsgShadersStop == "Unable to compile shaders. Stopping."
MsgProgramStop == "Unable to create WebGLProgram. Stopping."
MsgDone == "done"

VARIABLES
  pc,               \* position of the single thread of execution
  canvas,           \* [present, width, height]: the #canvas element
  gl,               \* TRUE once canvas.getContext("webgl") returned a context
  csType, csShader, \* createShader's frame: parameter `type`, local `shader`
  cpProgram,        \* createProgram's local `program`
  vertexShader, fragmentShader, program,   \* main's locals
  posBuffer, colBuffer, pos, colors,       \* main's locals captured by render
  attrPosPtr, attrColPtr,                  \* the frame callback's locals
  nextHandle,       \* context: next fresh object name
  shaders,          \* context: allocated shader objects
  programs,         \* context: allocated program objects
  buffers,          \* context: allocated buffer objects -> data store
  currentProgram,   \* context: CURRENT_PROGRAM
  boundArrayBuffer, \* context: ARRAY_BUFFER_BINDING
  attribs,          \* context: vertex attribute arrays
  clearColorV, viewportV,                  \* context: COLOR_CLEAR_VALUE, VIEWPORT
  console,          \* console.error / console.log output
  rafQueue,         \* callbacks registered with requestAnimationFrame
  calls,            \* every gl call made so far, in order
  frameStart,       \* Len(calls) when the latest frame callback was entered
  framesDone        \* completed invocations of the frame callback

localVars == <<csType, csShader, cpProgram, vertexShader, fragmentShader, program,
               posBuffer, colBuffer, pos, colors, attrPosPtr, attrColPtr>>
ctxVars == <<nextHandle, shaders, programs, buffers, currentProgram,
             boundArrayBuffer, attribs, clearColorV, viewportV>>
hostVars == <<canvas, gl, console, rafQueue, frameStart, framesDone>>
vars == <<pc, localVars, ctxVars, hostVars, calls>>

\* ---- helpers ----
Call(op, args) == [op |-> op, args |-> args, buf |-> boundArrayBuffer, data |-> <<>>]
CallData(op, args, d) == [op |-> op, args |-> args, buf |-> boundArrayBuffer, data |-> d]
Error(msg) == [level |-> "error", msg |-> msg]
Log(msg) == [level |-> "log", msg |-> msg]
B2I(b) == IF b THEN 1 ELSE 0

RemoveKey(f, k) == [x \in (DOMAIN f) \ {k} |-> f[x]]
AddKey(f, k, v) == [x \in (DOMAIN f) \cup {k} |-> IF x = k THEN v ELSE f[x]]

\* ---- geometry literals ----
\* The position literals are multiples of 1/8; they are kept as numerators
\* over 8, all of which a 32-bit float represents exactly.
posLiteral == <<4, 4,  1, 4,  4, 1,
                4, 7,  4, 4,  7, 4,
                4, 4,  7, 4,  4, 1>>

\* ./utils.scaleToBottomLeft: maps the unit square onto clip space with the
\* origin at the bottom-left corner, x |-> 2x - 1 (in eighths: 2n - 8).
scaleToBottomLeft(n) == 2 * n - 8

stellaColors == <<196, 92, 255, 255,  115, 92, 255, 255,  92, 151, 255, 255>>
revalxColors == <<247, 135, 2, 255,  236, 247, 2, 255,  247, 13, 2, 255>>
neoColors == <<36, 247, 150, 255,  36, 238, 247, 255,  36, 133, 247, 255>>

\* new Uint8Array(xs): every element is stored modulo 2^8
ToUint8(x) == x % 256
Uint8Array(xs) == [i \in 1..Len(xs) |-> ToUint8(xs[i])]

\* the default state of one vertex attribute array
DefaultAttrib == [enabled |-> FALSE, size |-> 4, type |-> GL_FLOAT,
                  normalized |-> FALSE, stride |-> 0, offset |-> 0, buffer |-> Null]

\* locations a successful link may give the two attributes: distinct slots
LinkedLocations == {f \in [AttribNames -> 0..(MaxAttribs - 1)] : f["a_Pos"] # f["a_Col"]}
NoLocations == [n \in AttribNames |-> -1]

\* gl.getAttribLocation(p, name)
GetAttribLocation(p, name) ==
  IF p \in DOMAIN programs /\ programs[p].linked THEN programs[p].loc[name] ELSE -1

Init ==
  /\ pc = "m_canvas"
  /\ canvas = [present |-> FALSE, width |-> CanvasDefaultWidth, height |-> CanvasDefaultHeight]
  /\ gl = FALSE
  /\ csType = 0 /\ csShader = Null /\ cpProgram = Null
  /\ vertexShader = Null /\ fragmentShader = Null /\ program = Null
  /\ posBuffer = Null /\ colBuffer = Null /\ pos = <<>> /\ colors = <<>>
  /\ attrPosPtr = -1 /\ attrColPtr = -1
  /\ nextHandle = 1
  /\ shaders = <<>> /\ programs = <<>> /\ buffers = <<>>
  /\ currentProgram = Null /\ boundArrayBuffer = Null
  /\ attribs = [i \in 0..(MaxAttribs - 1) |-> DefaultAttrib]
  /\ clearColorV = <<0, 0, 0, 0>>
  /\ viewportV = <<0, 0, CanvasDefaultWidth, CanvasDefaultHeight>>
  /\ console = <<>> /\ rafQueue = <<>> /\ calls = <<>>
  /\ frameStart = 0 /\ framesDone = 0

\* ================= main, lines 53-68 =================

\* document.querySelector("#canvas"); if (!canvas) { console.error; return }
M_QuerySelector ==
  /\ pc = "m_canvas"
  /\ \E found \in BOOLEAN :
       IF found
         THEN /\ canvas' = [canvas EXCEPT !.present = TRUE]
              /\ pc' = "m_ctx"
              /\ UNCHANGED console
         ELSE /\ console' = Append(console, Error(MsgCanvas))
              /\ pc' = "returned"
              /\ UNCHANGED canvas
  /\ UNCHANGED <<localVars, ctxVars, gl, rafQueue, frameStart, framesDone, calls>>

\* variant: a missing context is logged but main carries on
M_GetContext_Continue ==
  /\ pc = "m_ctx"
  /\ \E supported \in BOOLEAN :
       IF supported
         THEN /\ gl' = TRUE
              /\ UNCHANGED console
         ELSE /\ console' = Append(console, Error(MsgContext))
              /\ UNCHANGED gl
  /\ pc' = "m_vs"
  /\ UNCHANGED <<localVars, ctxVars, canvas, rafQueue, frameStart, framesDone, calls>>

\* canvas.getContext("webgl"); if (!gl) { console.error; return }
M_GetContext ==
  /\ pc = "m_ctx"
  /\ \E supported \in BOOLEAN :
       IF supported
         THEN /\ gl' = TRUE
              /\ pc' = "m_vs"
              /\ UNCHANGED console
         ELSE /\ console' = Append(console, Error(MsgContext))
              /\ pc' = "returned"
              /\ UNCHANGED gl
  /\ UNCHANGED <<localVars, ctxVars, canvas, rafQueue, frameStart, framesDone, calls>>

\* ================= createShader, lines 8-27 =================

\* main line 70: createShader(gl, gl.VERTEX_SHADER, vertProgram) is entered
M_CallVertex ==
  /\ pc = "m_vs"
  /\ csType' = GL_VERTEX_SHADER
  /\ csShader' = Null
  /\ pc' = "cs_create"
  /\ UNCHANGED <<cpProgram, vertexShader, fragmentShader, program, posBuffer, colBuffer,
                 pos, colors, attrPosPtr, attrColPtr, ctxVars, hostVars, calls>>

\* main line 71: createShader(gl, gl.FRAGMENT_SHADER, fragProgram) is entered,
\* whatever the vertex stage returned
M_CallFragment ==
  /\ pc = "m_fs"
  /\ csType' = GL_FRAGMENT_SHADER
  /\ csShader' = Null
  /\ pc' = "cs_create"
  /\ UNCHANGED <<cpProgram, vertexShader, fragmentShader, program, posBuffer, colBuffer,
                 pos, colors, attrPosPtr, attrColPtr, ctxVars, hostVars, calls>>

\* `return r` of createShader: the result lands in main's local of that stage
CS_Return(r) ==
  /\ IF csType = GL_VERTEX_SHADER
       THEN /\ vertexShader' = r
            /\ pc' = "m_fs"
            /\ UNCHANGED fragmentShader
       ELSE /\ fragmentShader' = r
            /\ pc' = "m_checkShaders"
            /\ UNCHANGED vertexShader

\* const shader = gl.createShader(type); if (!shader) return null
CS_Create ==
  /\ pc = "cs_create"
  /\ calls' = Append(calls, Call("createShader", <<csType>>))
  /\ \E ok \in BOOLEAN :
       IF ok
         THEN /\ shaders' = AddKey(shaders, nextHandle,
                              [type |-> csType, hasSource |-> FALSE, compiled |-> FALSE])
              /\ csShader' = nextHandle
              /\ nextHandle' = nextHandle + 1
              /\ pc' = "cs_source"
              /\ UNCHANGED <<vertexShader, fragmentShader>>
         ELSE /\ CS_Return(Null)
              /\ UNCHANGED <<shaders, csShader, nextHandle>>
  /\ UNCHANGED <<csType, cpProgram, program, posBuffer, colBuffer, pos, colors,
                 attrPosPtr, attrColPtr, programs, buffers, currentProgram,
                 boundArrayBuffer, attribs, clearColorV, viewportV, hostVars>>

\* gl.shaderSource(shader, source)
CS_Source ==
  /\ pc = "cs_source"
  /\ calls' = Append(calls, Call("shaderSource", <<csShader>>))
  /\ shaders' = [shaders EXCEPT ![csShader].hasSource = TRUE]
  /\ pc' = "cs_compile"
  /\ UNCHANGED <<localVars, nextHandle, programs, buffers, currentProgram,
                 boundArrayBuffer, attribs, clearColorV, viewportV, hostVars>>

\* gl.compileShader(shader): the compiler accepts or rejects the source text
CS_Compile ==
  /\ pc = "cs_compile"
  /\ calls' = Append(calls, Call("compileShader", <<csShader>>))
  /\ \E status \in BOOLEAN :
       shaders' = [shaders EXCEPT ![csShader].compiled = status]
  /\ pc' = "cs_check"
  /\ UNCHANGED <<localVars, nextHandle, programs, buffers, currentProgram,
                 boundArrayBuffer, attribs, clearColorV, viewportV, hostVars>>

\* if (!gl.getShaderParameter(shader, gl.COMPILE_STATUS)) { console.error(...)
\* ... } else return shader
CS_Check ==
  /\ pc = "cs_check"
  /\ IF ~shaders[csShader].compiled
       THEN /\ console' = Append(console, Error(MsgShader))
            /\ pc' = "cs_delete"
            /\ UNCHANGED <<vertexShader, fragmentShader>>
       ELSE /\ CS_Return(csShader)
            /\ UNCHANGED console
  /\ UNCHANGED <<csType, csShader, cpProgram, program, posBuffer, colBuffer, pos, colors,
                 attrPosPtr, attrColPtr, ctxVars, canvas, gl, rafQueue, frameStart,
                 framesDone, calls>>

\* variant: the failed shader is reported but never released
CS_Delete_NoRelease ==
  /\ pc = "cs_delete"
  /\ CS_Return(Null)
  /\ UNCHANGED <<csType, csShader, cpProgram, program, posBuffer, colBuffer, pos, colors,
                 attrPosPtr, attrColPtr, ctxVars, hostVars, calls>>

\* gl.deleteShader(shader); return null
CS_Delete ==
  /\ pc = "cs_delete"
  /\ calls' = Append(calls, Call("deleteShader", <<csShader>>))
  /\ shaders' = RemoveKey(shaders, csShader)
  /\ CS_Return(Null)
  /\ UNCHANGED <<csType, csShader, cpProgram, program, posBuffer, colBuffer, pos, colors,
                 attrPosPtr, attrColPtr, nextHandle, programs, buffers, currentProgram,
                 boundArrayBuffer, attribs, clearColorV, viewportV, hostVars>>

\* variant: only the vertex stage's result is tested
M_CheckShaders_VertexOnly ==
  /\ pc = "m_checkShaders"
  /\ IF vertexShader = Null
       THEN /\ console' = Append(console, Error(MsgShadersStop))
            /\ pc' = "returned"
       ELSE /\ pc' = "cp_create"
            /\ UNCHANGED console
  /\ UNCHANGED <<localVars, ctxVars, canvas, gl, rafQueue, frameStart, framesDone, calls>>

\* variant: on failure main also releases whatever shader did compile
M_CheckShaders_Cleanup ==
  /\ pc = "m_checkShaders"
  /\ IF vertexShader = Null \/ fragmentShader = Null
       THEN /\ console' = Append(console, Error(MsgShadersStop))
            /\ shaders' = <<>>
            /\ pc' = "returned"
       ELSE /\ pc' = "cp_create"
            /\ UNCHANGED <<console, shaders>>
  /\ UNCHANGED <<localVars, nextHandle, programs, buffers, currentProgram, boundArrayBuffer,
                 attribs, clearColorV, viewportV, canvas, gl, rafQueue, frameStart,
                 framesDone, calls>>

\* if (!vertexShader || !fragmentShader) { console.error; return }
M_CheckShaders ==
  /\ pc = "m_checkShaders"
  /\ IF vertexShader = Null \/ fragmentShader = Null
       THEN /\ console' = Append(console, Error(MsgShadersStop))
            /\ pc' = "returned"
       ELSE /\ pc' = "cp_create"
            /\ UNCHANGED console
  /\ UNCHANGED <<localVars, ctxVars, canvas, gl, rafQueue, frameStart, framesDone, calls>>

\* ================= createProgram, lines 29-48 =================

\* `return r` of createProgram into main's local `program`
CP_Return(r) ==
  /\ program' = r
  /\ pc' = "m_checkProgram"

\* const program = gl.createProgram(); if (!program) return null
CP_Create ==
  /\ pc = "cp_create"
  /\ calls' = Append(calls, Call("createProgram", <<>>))
  /\ \E ok \in BOOLEAN :
       IF ok
         THEN /\ programs' = AddKey(programs, nextHandle,
                               [attached |-> {}, linked |-> FALSE, loc |-> NoLocations])
              /\ cpProgram' = nextHandle
              /\ nextHandle' = nextHandle + 1
              /\ pc' = "cp_attachV"
              /\ UNCHANGED program
         ELSE /\ CP_Return(Null)
              /\ UNCHANGED <<programs, cpProgram, nextHandle>>
  /\ UNCHANGED <<csType, csShader, vertexShader, fragmentShader, posBuffer, colBuffer,
                 pos, colors, attrPosPtr, attrColPtr, shaders, buffers, currentProgram,
                 boundArrayBuffer, attribs, clearColorV, viewportV, hostVars>>

\* gl.attachShader(program, vertShader)
CP_AttachVertex ==
  /\ pc = "cp_attachV"
  /\ calls' = Append(calls, Call("attachShader", <<cpProgram, vertexShader>>))
  /\ programs' = [programs EXCEPT ![cpProgram].attached = @ \cup {vertexShader}]
  /\ pc' = "cp_attachF"
  /\ UNCHANGED <<localVars, nextHandle, shaders, buffers, currentProgram,
                 boundArrayBuffer, attribs, clearColorV, viewportV, hostVars>>

\* gl.attachShader(program, fragShader)
CP_AttachFragment ==
  /\ pc = "cp_attachF"
  /\ calls' = Append(calls, Call("attachShader", <<cpProgram, fragmentShader>>))
  /\ programs' = [programs EXCEPT ![cpProgram].attached = @ \cup {fragmentShader}]
  /\ pc' = "cp_link"
  /\ UNCHANGED <<localVars, nextHandle, shaders, buffers, currentProgram,
                 boundArrayBuffer, attribs, clearColorV, viewportV, hostVars>>

\* gl.linkProgram(program): the linker accepts or rejects the pair; when it
\* accepts, the two attributes receive their locations
CP_Link ==
  /\ pc = "cp_link"
  /\ calls' = Append(calls, Call("linkProgram", <<cpProgram>>))
  /\ \/ programs' = [programs EXCEPT ![cpProgram].linked = FALSE]
     \/ \E l \in LinkedLocations :
          programs' = [programs EXCEPT ![cpProgram].linked = TRUE, ![cpProgram].loc = l]
  /\ pc' = "cp_check"
  /\ UNCHANGED <<localVars, nextHandle, shaders, buffers, currentProgram,
                 boundArrayBuffer, attribs, clearColorV, viewportV, hostVars>>

\* if (!gl.getProgramParameter(program, gl.LINK_STATUS)) { console.error(...)
\* ... } else return program
CP_Check ==
  /\ pc = "cp_check"
  /\ IF ~programs[cpProgram].linked
       THEN /\ console' = Append(console, Error(MsgProgram))
            /\ pc' = "cp_delete"
            /\ UNCHANGED program
       ELSE /\ CP_Return(cpProgram)
            /\ UNCHANGED console
  /\ UNCHANGED <<csType, csShader, cpProgram, vertexShader, fragmentShader, posBuffer,
                 colBuffer, pos, colors, attrPosPtr, attrColPtr, ctxVars, canvas, gl,
                 rafQueue, frameStart, framesDone, calls>>

\* variant: the unlinked program is reported but never released
CP_Delete_NoRelease ==
  /\ pc = "cp_delete"
  /\ CP_Return(Null)
  /\ UNCHANGED <<csType, csShader, cpProgram, vertexShader, fragmentShader, posBuffer,
                 colBuffer, pos, colors, attrPosPtr, attrColPtr, ctxVars, hostVars, calls>>

\* gl.deleteProgram(program); return null
CP_Delete ==
  /\ pc = "cp_delete"
  /\ calls' = Append(calls, Call("deleteProgram", <<cpProgram>>))
  /\ programs' = RemoveKey(programs, cpProgram)
  /\ CP_Return(Null)
  /\ UNCHANGED <<csType, csShader, cpProgram, vertexShader, fragmentShader, posBuffer,
                 colBuffer, pos, colors, attrPosPtr, attrColPtr, nextHandle, shaders,
                 buffers, currentProgram, boundArrayBuffer, attribs, clearColorV,
                 viewportV, hostVars>>

\* ================= main, lines 77-169 =================

\* if (!program) { console.error; return }
M_CheckProgram ==
  /\ pc = "m_checkProgram"
  /\ IF program = Null
       THEN /\ console' = Append(console, Error(MsgProgramStop))
            /\ pc' = "returned"
       ELSE /\ pc' = "m_use"
            /\ UNCHANGED console
  /\ UNCHANGED <<localVars, ctxVars, canvas, gl, rafQueue, frameStart, framesDone, calls>>

\* variant: the linked program is never made current
M_UseProgram_Skip ==
  /\ pc = "m_use"
  /\ pc' = "m_posBuffer"
  /\ UNCHANGED <<localVars, ctxVars, hostVars, calls>>

\* gl.useProgram(program)
M_UseProgram ==
  /\ pc = "m_use"
  /\ calls' = Append(calls, Call("useProgram", <<program>>))
  /\ currentProgram' = program
  /\ pc' = "m_posBuffer"
  /\ UNCHANGED <<localVars, nextHandle, shaders, programs, buffers, boundArrayBuffer,
                 attribs, clearColorV, viewportV, hostVars>>

\* const posBuffer = gl.createBuffer()!!  (the code asserts a buffer is returned)
M_CreatePosBuffer ==
  /\ pc = "m_posBuffer"
  /\ calls' = Append(calls, Call("createBuffer", <<>>))
  /\ buffers' = AddKey(buffers, nextHandle, <<>>)
  /\ posBuffer' = nextHandle
  /\ nextHandle' = nextHandle + 1
  /\ pc' = "m_pos"
  /\ UNCHANGED <<csType, csShader, cpProgram, vertexShader, fragmentShader, program,
                 colBuffer, pos, colors, attrPosPtr, attrColPtr, shaders, programs,
                 currentProgram, boundArrayBuffer, attribs, clearColorV, viewportV,
                 hostVars>>

\* const pos = new Float32Array([...]).map(scaleToBottomLeft)
M_Pos ==
  /\ pc = "m_pos"
  /\ pos' = [i \in 1..Len(posLiteral) |-> scaleToBottomLeft(posLiteral[i])]
  /\ pc' = "m_colBuffer"
  /\ UNCHANGED <<csType, csShader, cpProgram, vertexShader, fragmentShader, program,
                 posBuffer, colBuffer, colors, attrPosPtr, attrColPtr, ctxVars,
                 hostVars, calls>>

\* const colBuffer = gl.createBuffer()!!
M_CreateColBuffer ==
  /\ pc = "m_colBuffer"
  /\ calls' = Append(calls, Call("createBuffer", <<>>))
  /\ buffers' = AddKey(buffers, nextHandle, <<>>)
  /\ colBuffer' = nextHandle
  /\ nextHandle' = nextHandle + 1
  /\ pc' = "m_colors"
  /\ UNCHANGED <<csType, csShader, cpProgram, vertexShader, fragmentShader, program,
                 posBuffer, pos, colors, attrPosPtr, attrColPtr, shaders, programs,
                 currentProgram, boundArrayBuffer, attribs, clearColorV, viewportV,
                 hostVars>>

\* variant: the third colour triple is left out
M_Colors_Short ==
  /\ pc = "m_colors"
  /\ colors' = Uint8Array(stellaColors \o revalxColors)
  /\ pc' = "m_resize"
  /\ UNCHANGED <<csType, csShader, cpProgram, vertexShader, fragmentShader, program,
                 posBuffer, colBuffer, pos, attrPosPtr, attrColPtr, ctxVars,
                 hostVars, calls>>

\* const colors = new Uint8Array(stellaColors.concat(revalxColors).concat(neoColors))
M_Colors ==
  /\ pc = "m_colors"
  /\ colors' = Uint8Array((stellaColors \o revalxColors) \o neoColors)
  /\ pc' = "m_resize"
  /\ UNCHANGED <<csType, csShader, cpProgram, vertexShader, fragmentShader, program,
                 posBuffer, colBuffer, pos, attrPosPtr, attrColPtr, ctxVars,
                 hostVars, calls>>

\* twgl.resizeCanvasToDisplaySize(canvas, window.devicePixelRatio) and the
\* console.log reporting it
M_Resize ==
  /\ pc = "m_resize"
  /\ \E devicePixelRatio \in 1..MaxPixelRatio :
       LET w == CanvasDefaultWidth * devicePixelRatio
           h == CanvasDefaultHeight * devicePixelRatio
           resized == canvas.width # w \/ canvas.height # h
       IN /\ canvas' = [canvas EXCEPT !.width = w, !.height = h]
          /\ console' = Append(console,
                Log("Canvas " \o (IF resized THEN "was" ELSE "already") \o " resized to "
                    \o ToString(w) \o "x" \o ToString(h) \o "."))
  /\ pc' = "m_viewport"
  /\ UNCHANGED <<localVars, ctxVars, gl, rafQueue, frameStart, framesDone, calls>>

\* gl.viewport(0, 0, canvas.width, canvas.height)
M_Viewport ==
  /\ pc = "m_viewport"
  /\ calls' = Append(calls, Call("viewport", <<0, 0, canvas.width, canvas.height>>))
  /\ viewportV' = <<0, 0, canvas.width, canvas.height>>
  /\ pc' = "m_raf"
  /\ UNCHANGED <<localVars, nextHandle, shaders, programs, buffers, currentProgram,
                 boundArrayBuffer, attribs, clearColorV, hostVars>>

\* requestAnimationFrame(render(gl, program)): the closure render returns is
\* registered once with the host
M_RequestAnimationFrame ==
  /\ pc = "m_raf"
  /\ rafQueue' = Append(rafQueue, "render")
  /\ pc' = "m_done"
  /\ UNCHANGED <<localVars, ctxVars, canvas, gl, console, frameStart, framesDone, calls>>

\* console.log('done'); main returns
M_LogDone ==
  /\ pc = "m_done"
  /\ console' = Append(console, Log(MsgDone))
  /\ pc' = "returned"
  /\ UNCHANGED <<localVars, ctxVars, canvas, gl, rafQueue, frameStart, framesDone, calls>>

\* ================= the frame callback, lines 146-164 =================

\* The host runs a registered callback once the running script has returned;
\* a registration is consumed by the call it produces.
HostRunFrame ==
  /\ pc = "returned"
  /\ rafQueue # <<>>
  /\ rafQueue' = Tail(rafQueue)
  /\ frameStart' = Len(calls)
  /\ pc' = "r_clearColor"
  /\ UNCHANGED <<localVars, ctxVars, canvas, gl, console, framesDone, calls>>

\* gl.clearColor(1, 1, 1, 1)
R_ClearColor ==
  /\ pc = "r_clearColor"
  /\ calls' = Append(calls, Call("clearColor", <<1, 1, 1, 1>>))
  /\ clearColorV' = <<1, 1, 1, 1>>
  /\ pc' = "r_clear"
  /\ UNCHANGED <<localVars, nextHandle, shaders, programs, buffers, currentProgram,
                 boundArrayBuffer, attribs, viewportV, hostVars>>

\* gl.clear(gl.COLOR_BUFFER_BIT | gl.DEPTH_BUFFER_BIT); the two bits are
\* disjoint, so the bitwise or is their sum
R_Clear ==
  /\ pc = "r_clear"
  /\ calls' = Append(calls, Call("clear", <<GL_COLOR_BUFFER_BIT + GL_DEPTH_BUFFER_BIT>>))
  /\ pc' = "r_posLoc"
  /\ UNCHANGED <<localVars, ctxVars, hostVars>>

\* const attrPosPtr = gl.getAttribLocation(program, "a_Pos")
R_GetPosLocation ==
  /\ pc = "r_posLoc"
  /\ attrPosPtr' = GetAttribLocation(program, "a_Pos")
  /\ pc' = "r_posEnable"
  /\ UNCHANGED <<csType, csShader, cpProgram, vertexShader, fragmentShader, program,
                 posBuffer, colBuffer, pos, colors, attrColPtr, ctxVars, hostVars, calls>>

\* gl.enableVertexAttribArray(attrPosPtr)
R_EnablePos ==
  /\ pc = "r_posEnable"
  /\ calls' = Append(calls, Call("enableVertexAttribArray", <<attrPosPtr>>))
  /\ attribs' = [attribs EXCEPT ![attrPosPtr].enabled = TRUE]
  /\ pc' = "r_posBind"
  /\ UNCHANGED <<localVars, nextHandle, shaders, programs, buffers, currentProgram,
                 boundArrayBuffer, clearColorV, viewportV, hostVars>>

\* gl.bindBuffer(gl.ARRAY_BUFFER, posBuffer)
R_BindPos ==
  /\ pc = "r_posBind"
  /\ calls' = Append(calls, Call("bindBuffer", <<GL_ARRAY_BUFFER, posBuffer>>))
  /\ boundArrayBuffer' = posBuffer
  /\ pc' = "r_posData"
  /\ UNCHANGED <<localVars, nextHandle, shaders, programs, buffers, currentProgram,
                 attribs, clearColorV, viewportV, hostVars>>

\* gl.bufferData(gl.ARRAY_BUFFER, pos, gl.STATIC_DRAW): the data store of the
\* bound buffer is replaced
R_UploadPos ==
  /\ pc = "r_posData"
  /\ calls' = Append(calls, CallData("bufferData", <<GL_ARRAY_BUFFER, GL_STATIC_DRAW>>, pos))
  /\ buffers' = [buffers EXCEPT ![boundArrayBuffer] = pos]
  /\ pc' = "r_posPointer"
  /\ UNCHANGED <<localVars, nextHandle, shaders, programs, currentProgram,
                 boundArrayBuffer, attribs, clearColorV, viewportV, hostVars>>

\* gl.vertexAttribPointer(attrPosPtr, 2, gl.FLOAT, false, 0, 0): the
\* descriptor captures the buffer bound at the time of the call
R_PointerPos ==
  /\ pc = "r_posPointer"
  /\ calls' = Append(calls, Call("vertexAttribPointer",
                                 <<attrPosPtr, 2, GL_FLOAT, B2I(FALSE), 0, 0>>))
  /\ attribs' = [attribs EXCEPT ![attrPosPtr] =
                   [enabled |-> @.enabled, size |-> 2, type |-> GL_FLOAT,
                    normalized |-> FALSE, stride |-> 0, offset |-> 0,
                    buffer |-> boundArrayBuffer]]
  /\ pc' = "r_colLoc"
  /\ UNCHANGED <<localVars, nextHandle, shaders, programs, buffers, currentProgram,
                 boundArrayBuffer, clearColorV, viewportV, hostVars>>

\* const attrColPtr = gl.getAttribLocation(program, "a_Col")
R_GetColLocation ==
  /\ pc = "r_colLoc"
  /\ attrColPtr' = GetAttribLocation(program, "a_Col")
  /\ pc' = "r_colEnable"
  /\ UNCHANGED <<csType, csShader, cpProgram, vertexShader, fragmentShader, program,
                 posBuffer, colBuffer, pos, colors, attrPosPtr, ctxVars, hostVars, calls>>

\* gl.enableVertexAttribArray(attrColPtr)
R_EnableCol ==
  /\ pc = "r_colEnable"
  /\ calls' = Append(calls, Call("enableVertexAttribArray", <<attrColPtr>>))
  /\ attribs' = [attribs EXCEPT ![attrColPtr].enabled = TRUE]
  /\ pc' = "r_colBind"
  /\ UNCHANGED <<localVars, nextHandle, shaders, programs, buffers, currentProgram,
                 boundArrayBuffer, clearColorV, viewportV, hostVars>>

\* variant: the colour buffer is never bound
R_BindCol_Skip ==
  /\ pc = "r_colBind"
  /\ pc' = "r_colData"
  /\ UNCHANGED <<localVars, ctxVars, hostVars, calls>>

\* gl.bindBuffer(gl.ARRAY_BUFFER, colBuffer)
R_BindCol ==
  /\ pc = "r_colBind"
  /\ calls' = Append(calls, Call("bindBuffer", <<GL_ARRAY_BUFFER, colBuffer>>))
  /\ boundArrayBuffer' = colBuffer
  /\ pc' = "r_colData"
  /\ UNCHANGED <<localVars, nextHandle, shaders, programs, buffers, currentProgram,
                 attribs, clearColorV, viewportV, hostVars>>

\* gl.bufferData(gl.ARRAY_BUFFER, colors, gl.STATIC_DRAW)
R_UploadCol ==
  /\ pc = "r_colData"
  /\ calls' = Append(calls, CallData("bufferData", <<GL_ARRAY_BUFFER, GL_STATIC_DRAW>>, colors))
  /\ buffers' = [buffers EXCEPT ![boundArrayBuffer] = colors]
  /\ pc' = "r_colPointer"
  /\ UNCHANGED <<localVars, nextHandle, shaders, programs, currentProgram,
                 boundArrayBuffer, attribs, clearColorV, viewportV, hostVars>>

\* gl.vertexAttribPointer(attrColPtr, 4, gl.UNSIGNED_BYTE, true, 0, 0)
R_PointerCol ==
  /\ pc = "r_colPointer"
  /\ calls' = Append(calls, Call("vertexAttribPointer",
                                 <<attrColPtr, 4, GL_UNSIGNED_BYTE, B2I(TRUE), 0, 0>>))
  /\ attribs' = [attribs EXCEPT ![attrColPtr] =
                   [enabled |-> @.enabled, size |-> 4, type |-> GL_UNSIGNED_BYTE,
                    normalized |-> TRUE, stride |-> 0, offset |-> 0,
                    buffer |-> boundArrayBuffer]]
  /\ pc' = "r_draw"
  /\ UNCHANGED <<localVars, nextHandle, shaders, programs, buffers, currentProgram,
                 boundArrayBuffer, clearColorV, viewportV, hostVars>>

\* variant: the element count of pos is passed as the vertex count
R_Draw_AllElements ==
  /\ pc = "r_draw"
  /\ calls' = Append(calls, Call("drawArrays", <<GL_TRIANGLES, 0, Len(pos)>>))
  /\ framesDone' = framesDone + 1
  /\ pc' = "returned"
  /\ UNCHANGED <<localVars, ctxVars, canvas, gl, console, rafQueue, frameStart>>

\* gl.drawArrays(gl.TRIANGLES, 0, pos.length / 2); the callback then returns
\* without registering anything with the host
R_Draw ==
  /\ pc = "r_draw"
  /\ calls' = Append(calls, Call("drawArrays", <<GL_TRIANGLES, 0, Len(pos) \div 2>>))
  /\ framesDone' = framesDone + 1
  /\ pc' = "returned"
  /\ UNCHANGED <<localVars, ctxVars, canvas, gl, console, rafQueue, frameStart>>

Next ==
  \/ M_QuerySelector \/ M_GetContext
  \/ M_CallVertex \/ M_CallFragment
  \/ CS_Create \/ CS_Source \/ CS_Compile \/ CS_Check \/ CS_Delete
  \/ M_CheckShaders
  \/ CP_Create \/ CP_AttachVertex \/ CP_AttachFragment \/ CP_Link \/ CP_Check \/ CP_Delete
  \/ M_CheckProgram \/ M_UseProgram
  \/ M_CreatePosBuffer \/ M_Pos \/ M_CreateColBuffer \/ M_Colors
  \/ M_Resize \/ M_Viewport \/ M_RequestAnimationFrame \/ M_LogDone
  \/ HostRunFrame
  \/ R_ClearColor \/ R_Clear
  \/ R_GetPosLocation \/ R_EnablePos \/ R_BindPos \/ R_UploadPos \/ R_PointerPos
  \/ R_GetColLocation \/ R_EnableCol \/ R_BindCol \/ R_UploadCol \/ R_PointerCol
  \/ R_Draw

Spec == Init /\ [][Next]_vars

\* The host is fair to registered callbacks, and the script itself runs to
\* completion: every enabled step is eventually taken.
FairSpec == Spec /\ WF_vars(Next)

\* ---- vocabulary of the properties ----
CreateShaderPcs == {"cs_create", "cs_source", "cs_compile", "cs_check", "cs_delete"}
CreateProgramPcs == {"cp_create", "cp_attachV", "cp_attachF", "cp_link", "cp_check", "cp_delete"}
RenderPcs == {"r_clearColor", "r_clear", "r_posLoc", "r_posEnable", "r_posBind", "r_posData",
              "r_posPointer", "r_colLoc", "r_colEnable", "r_colBind", "r_colData",
              "r_colPointer", "r_draw"}

Idx(op) == {i \in 1..Len(calls) : calls[i].op = op}
FrameIdx(op) == {i \in Idx(op) : i > frameStart}
FrameEntered == pc \in RenderPcs \/ framesDone > 0
FrameReturned == framesDone > 0 /\ pc = "returned"
Logged(level, msg) == \E i \in 1..Len(console) : console[i] = [level |-> level, msg |-> msg]

\* the result of a stage's createShader call, once that call has returned
VertexReturned == pc \notin {"m_canvas", "m_ctx", "m_vs"}
                  /\ ~(pc \in CreateShaderPcs /\ csType = GL_VERTEX_SHADER) /\ gl
FragmentReturned == VertexReturned /\ pc # "m_fs" /\ pc \notin CreateShaderPcs
ProgramReturned == Idx("createProgram") # {} /\ pc \notin CreateProgramPcs
StageResult == IF csType = GL_VERTEX_SHADER THEN vertexShader ELSE fragmentShader

\* C1: every invocation of the frame callback ends by registering itself
\* again with the host's animation-frame scheduler, so the loop never stops
\* by itself: when a frame callback has returned, a callback is registered.
C1_FrameReregisters == FrameReturned => rafQueue # <<>>

C2_Step ==
  /\ (pc = "cs_check" /\ ~shaders[csShader].compiled) =>
        /\ console' = Append(console, Error(MsgShader))
        /\ pc' = "cs_delete"
  /\ pc = "cs_delete" =>
        /\ calls' = Append(calls, Call("deleteShader", <<csShader>>))
        /\ csShader \notin DOMAIN shaders'
        /\ pc' \notin CreateShaderPcs
        /\ StageResult' = Null
  /\ (pc = "cs_create" /\ DOMAIN shaders' = DOMAIN shaders) =>
        /\ pc' \notin CreateShaderPcs
        /\ StageResult' = Null
        /\ Len(calls') = Len(calls) + 1
        /\ calls'[Len(calls')].op = "createShader"

C2_Returned ==
  pc \notin CreateShaderPcs =>
     /\ \A h \in DOMAIN shaders : shaders[h].compiled
     /\ \A i \in Idx("deleteShader") :
          /\ calls[i].args[1] \notin DOMAIN shaders
          /\ Logged("error", MsgShader)
     /\ Cardinality(Idx("deleteShader")) = Cardinality({i \in 1..Len(console) : console[i].msg = MsgShader})
     /\ (VertexReturned /\ vertexShader # Null) => vertexShader \in DOMAIN shaders
     /\ (FragmentReturned /\ fragmentShader # Null) => fragmentShader \in DOMAIN shaders

\* C2: when the compile status reports failure, createShader logs a
\* diagnostic, deletes the handle it allocated and returns null, so no
\* failed handle is allocated once createShader has returned; when the
\* allocation itself fails it returns null having made no other gl call.
C2_CompileFailureReleases == []C2_Returned /\ [][C2_Step]_vars

\* a failed compile has been cleaned up and reported to main
C2_Witness ==
  /\ pc = "m_checkShaders"
  /\ Idx("deleteShader") # {}
  /\ fragmentShader = Null

C3_Step ==
  /\ (pc = "cp_check" /\ ~programs[cpProgram].linked) =>
        /\ console' = Append(console, Error(MsgProgram))
        /\ pc' = "cp_delete"
  /\ pc = "cp_delete" =>
        /\ calls' = Append(calls, Call("deleteProgram", <<cpProgram>>))
        /\ cpProgram \notin DOMAIN programs'
        /\ pc' \notin CreateProgramPcs
        /\ program' = Null

C3_Returned ==
  /\ pc \notin CreateProgramPcs => \A p \in DOMAIN programs : programs[p].linked
  /\ \A i \in Idx("deleteProgram") :
        /\ Logged("error", MsgProgram)
        /\ calls[i].args[1] \notin DOMAIN programs
        /\ currentProgram # calls[i].args[1]
        /\ \A u \in Idx("useProgram") : calls[u].args[1] # calls[i].args[1]

\* C3: when the link status reports failure, createProgram logs a diagnostic,
\* deletes the program handle it allocated and returns null; the handle is
\* not allocated when createProgram returns and never becomes current.
C3_LinkFailureReleases == []C3_Returned /\ [][C3_Step]_vars

\* a failed link has been cleaned up and main has stopped
C3_Witness ==
  /\ pc = "returned"
  /\ Idx("deleteProgram") # {}
  /\ Logged("error", MsgProgramStop)

MainErrors == {MsgCanvas, MsgContext, MsgShadersStop, MsgProgramStop}
CompileFailed == Logged("error", MsgShader)
     \/ (VertexReturned /\ vertexShader = Null)
     \/ (FragmentReturned /\ fragmentShader = Null)
LinkFailed == Logged("error", MsgProgram) \/ (ProgramReturned /\ program = Null)
StartupFailed == CompileFailed \/ LinkFailed
     \/ Logged("error", MsgCanvas) \/ Logged("error", MsgContext)

\* C4: every start-up failure is terminal: main logs an error and returns
\* early without retrying; createProgram is never invoked after a compile
\* failure, useProgram never after a link failure, and after any failure no
\* frame callback is registered and no draw call is issued.
C4_FailureIsTerminal ==
  /\ CompileFailed => Idx("createProgram") = {}
  /\ LinkFailed => Idx("useProgram") = {}
  /\ StartupFailed =>
        /\ rafQueue = <<>>
        /\ pc \notin RenderPcs \cup {"m_raf", "m_done"}
        /\ framesDone = 0
        /\ Idx("drawArrays") = {}
        /\ Cardinality(Idx("createShader")) <= 2
        /\ Cardinality(Idx("createProgram")) <= 1
  /\ (StartupFailed /\ pc = "returned") =>
        /\ console[Len(console)].level = "error"
        /\ console[Len(console)].msg \in MainErrors
        /\ Cardinality({i \in 1..Len(console) : console[i].msg \in MainErrors}) = 1
        /\ ~Logged("log", MsgDone)

\* main has stopped after the fragment stage failed to compile
C4_Witness ==
  /\ pc = "returned"
  /\ vertexShader # Null /\ fragmentShader = Null
  /\ Logged("error", MsgShader)
  /\ Logged("error", MsgShadersStop)

\* C5: without the canvas element or without a WebGL context, start-up halts
\* before any shader work (no gl call at all, nothing registered with the
\* host), and the one message logged differs from the messages of a compile
\* failure and of a link failure.
C5_NoSurfaceHaltsEarly ==
  (pc = "returned" /\ ~gl) =>
     /\ calls = <<>>
     /\ rafQueue = <<>> /\ framesDone = 0
     /\ shaders = <<>> /\ programs = <<>> /\ buffers = <<>>
     /\ Len(console) = 1
     /\ console[1].level = "error"
     /\ console[1].msg \notin {MsgShader, MsgShadersStop, MsgProgram, MsgProgramStop}

\* the canvas exists but gives no WebGL context
C5_Witness == pc = "returned" /\ canvas.present /\ ~gl /\ Logged("error", MsgContext)

PosUploads == {i \in FrameIdx("bufferData") : calls[i].buf = posBuffer /\ calls[i].data = pos}
ColUploads == {i \in FrameIdx("bufferData") : calls[i].buf = colBuffer /\ calls[i].data = colors}

\* C6: a frame callback first clears the surface (clear colour opaque white,
\* colour and depth bits), then uploads the position and the colour buffer
\* once each, then issues exactly one draw call: TRIANGLES, offset 0, count 9;
\* no draw call precedes the clear or either upload.
C6_FrameSubmission ==
  /\ \A d \in Idx("drawArrays") :
        /\ d > frameStart + 2
        /\ calls[d].args = <<GL_TRIANGLES, 0, 9>>
        /\ \E p \in PosUploads : p < d
        /\ \E c \in ColUploads : c < d
  /\ (FrameEntered /\ Len(calls) >= frameStart + 2) =>
        /\ calls[frameStart + 1].op = "clearColor"
        /\ calls[frameStart + 1].args = <<1, 1, 1, 1>>
        /\ calls[frameStart + 2].op = "clear"
        /\ calls[frameStart + 2].args = <<GL_COLOR_BUFFER_BIT + GL_DEPTH_BUFFER_BIT>>
        /\ FrameIdx("clear") = {frameStart + 2}
  /\ (FrameEntered /\ FrameIdx("clear") # {}) => clearColorV = <<1, 1, 1, 1>>
  /\ FrameReturned =>
        /\ FrameIdx("drawArrays") = {Len(calls)}
        /\ Cardinality(PosUploads) = 1
        /\ Cardinality(ColUploads) = 1
        /\ Cardinality(FrameIdx("bufferData")) = 2
        /\ buffers[posBuffer] = pos /\ buffers[colBuffer] = colors

\* a frame callback has run to completion
C6_Witness == FrameReturned /\ Idx("drawArrays") # {}

PosDescriptor == [enabled |-> TRUE, size |-> 2, type |-> GL_FLOAT, normalized |-> FALSE,
                  stride |-> 0, offset |-> 0]
ColDescriptor == [enabled |-> TRUE, size |-> 4, type |-> GL_UNSIGNED_BYTE, normalized |-> TRUE,
                  stride |-> 0, offset |-> 0]
Uploaded(buf, before) ==
  \E b \in FrameIdx("bindBuffer") : \E u \in FrameIdx("bufferData") :
     /\ b < u /\ u < before
     /\ calls[b].args = <<GL_ARRAY_BUFFER, buf>>
     /\ calls[u].buf = buf
PointerAfterUpload(ptr, buf, args) ==
  \A i \in FrameIdx("vertexAttribPointer") :
     calls[i].args[1] = ptr =>
        /\ calls[i].args = args
        /\ calls[i].buf = buf
        /\ Uploaded(buf, i)
EnableAfterUpload(ptr, buf) ==
  \A i \in FrameIdx("enableVertexAttribArray") :
     calls[i].args[1] = ptr => Uploaded(buf, i)
EnableBeforeBind(ptr, buf) ==
  \A i \in FrameIdx("enableVertexAttribArray") :
     calls[i].args[1] = ptr =>
        \A b \in FrameIdx("bindBuffer") : calls[b].args[2] = buf => i < b
PosPointerSet == \E i \in FrameIdx("vertexAttribPointer") : calls[i].args[1] = attrPosPtr
ColPointerSet == \E i \in FrameIdx("vertexAttribPointer") : calls[i].args[1] = attrColPtr

C7_Pointers ==
  /\ PointerAfterUpload(attrPosPtr, posBuffer, <<attrPosPtr, 2, GL_FLOAT, 0, 0, 0>>)
  /\ PointerAfterUpload(attrColPtr, colBuffer, <<attrColPtr, 4, GL_UNSIGNED_BYTE, 1, 0, 0>>)
  /\ PosPointerSet =>
        [f \in DOMAIN PosDescriptor |-> attribs[attrPosPtr][f]] = PosDescriptor
        /\ attribs[attrPosPtr].buffer = posBuffer
  /\ ColPointerSet =>
        [f \in DOMAIN ColDescriptor |-> attribs[attrColPtr][f]] = ColDescriptor
        /\ attribs[attrColPtr].buffer = colBuffer
  /\ FrameReturned => PosPointerSet /\ ColPointerSet /\ attrPosPtr # attrColPtr

\* C7 as stated: within a frame callback, each attribute is enabled and its
\* pointer descriptor is set only after that attribute's buffer has been
\* bound and its data uploaded.
C7_EnableAndPointerAfterUpload ==
  FrameEntered =>
     /\ C7_Pointers
     /\ EnableAfterUpload(attrPosPtr, posBuffer)
     /\ EnableAfterUpload(attrColPtr, colBuffer)

\* C7 amended: each pointer descriptor (2 x float, not normalized, stride 0,
\* offset 0 for a_Pos; 4 x unsigned byte, normalized, stride 0, offset 0 for
\* a_Col) is set only after that attribute's buffer was bound and uploaded
\* and while it is the bound array buffer; the attribute index is enabled
\* earlier, before its buffer is bound.
C7_PointerAfterUpload ==
  FrameEntered =>
     /\ C7_Pointers
     /\ EnableBeforeBind(attrPosPtr, posBuffer)
     /\ EnableBeforeBind(attrColPtr, colBuffer)
     /\ PosPointerSet => \E i \in FrameIdx("enableVertexAttribArray") : calls[i].args[1] = attrPosPtr
     /\ ColPointerSet => \E i \in FrameIdx("enableVertexAttribArray") : calls[i].args[1] = attrColPtr

\* both descriptors have been set in a completed frame
C7_Witness ==
  /\ FrameReturned
  /\ attribs[attrPosPtr].buffer = posBuffer
  /\ attribs[attrColPtr].buffer = colBuffer
  /\ attribs[attrColPtr].normalized

C8_State ==
  /\ Idx("drawArrays") # {} =>
        /\ currentProgram # Null
        /\ currentProgram = program
        /\ program \in DOMAIN programs
        /\ programs[program].linked
        /\ programs[program].attached = {vertexShader, fragmentShader}
        /\ \A s \in programs[program].attached : s \in DOMAIN shaders /\ shaders[s].compiled
  /\ Cardinality(Idx("useProgram")) <= 1
  /\ (rafQueue # <<>> \/ FrameEntered) =>
        /\ Cardinality(Idx("useProgram")) = 1
        /\ \A u \in Idx("useProgram") : calls[u].args = <<program>>
  /\ FrameEntered => \A u \in Idx("useProgram") : u <= frameStart
  /\ pc = "m_raf" => Cardinality(Idx("useProgram")) = 1
C8_Step ==
  currentProgram # Null =>
     /\ currentProgram' = currentProgram
     /\ currentProgram \in DOMAIN programs'
     /\ programs'[currentProgram] = programs[currentProgram]

\* C8: whenever a draw call has been issued the current program is the
\* program a successful createProgram returned (linked, both shaders
\* compiled); useProgram is called exactly once, before the frame callback
\* is registered, and the current program is never replaced or deleted.
C8_CurrentProgram == []C8_State /\ [][C8_Step]_vars

\* a draw call was issued under the linked program
C8_Witness == Idx("drawArrays") # {} /\ currentProgram = program /\ program # Null

C9_State ==
  /\ pos # <<>> => Len(pos) = 18
  /\ colors # <<>> => Len(colors) = 36
  /\ (pc \in {"m_resize", "m_viewport", "m_raf", "m_done"} \/ rafQueue # <<>> \/ FrameEntered) =>
        /\ Len(pos) = 18 /\ Len(colors) = 36
        /\ Len(pos) \div 2 = 9 /\ Len(colors) \div 4 = 9
        /\ \A i \in 1..Len(colors) : colors[i] \in 0..255
  /\ \A i \in Idx("bufferData") :
        \/ calls[i].buf = posBuffer /\ calls[i].data = pos
        \/ calls[i].buf = colBuffer /\ calls[i].data = colors
  /\ \A b \in DOMAIN buffers :
        \/ buffers[b] = <<>>
        \/ b = posBuffer /\ buffers[b] = pos
        \/ b = colBuffer /\ buffers[b] = colors
  /\ \A d \in Idx("drawArrays") : calls[d].args[3] = Len(pos) \div 2 /\ 2 * calls[d].args[3] = Len(pos)
  /\ FrameReturned => buffers[posBuffer] = pos /\ buffers[colBuffer] = colors
C9_Step ==
  /\ pos # <<>> => pos' = pos
  /\ colors # <<>> => colors' = colors
  /\ \A b \in DOMAIN buffers : buffers[b] # <<>> => (b \in DOMAIN buffers' /\ buffers'[b] = buffers[b])

\* C9: the geometry is constant: 18 position values and 36 colour values
\* (9 vertices each way) once built and never changed; every upload writes
\* those same arrays, so an uploaded buffer never changes contents, and the
\* vertex count of a draw call is positions.length / 2.
C9_GeometryConstant == []C9_State /\ [][C9_Step]_vars

\* both buffers hold the geometry after a frame
C9_Witness ==
  /\ FrameReturned
  /\ Len(buffers[posBuffer]) = 18
  /\ Len(buffers[colBuffer]) = 36

C10_State ==
  /\ Cardinality(Idx("deleteShader")) <= Cardinality({i \in 1..Len(console) : console[i].msg = MsgShader})
  /\ (VertexReturned /\ vertexShader # Null) =>
        vertexShader \in DOMAIN shaders /\ shaders[vertexShader].compiled
  /\ (FragmentReturned /\ fragmentShader # Null) =>
        fragmentShader \in DOMAIN shaders /\ shaders[fragmentShader].compiled
C10_Step ==
  /\ \A h \in (DOMAIN shaders) \ (DOMAIN shaders') :
        /\ pc = "cs_delete"
        /\ h = csShader
        /\ ~shaders[h].compiled
  /\ \A h \in DOMAIN shaders :
        shaders[h].compiled => (h \in DOMAIN shaders' /\ shaders'[h] = shaders[h])

\* C10: a shader handle is deleted only inside createShader and only when its
\* own compilation failed; a handle that compiled is never deleted later,
\* whether linking succeeds, linking fails, or the other stage fails.
C10_ShaderLifetime == []C10_State /\ [][C10_Step]_vars

\* linking failed and both compiled shaders are still allocated
C10_Witness ==
  /\ pc = "returned"
  /\ Logged("error", MsgProgramStop)
  /\ Idx("deleteProgram") # {}
  /\ {vertexShader, fragmentShader} \subseteq DOMAIN shaders
====
